---- MODULE Spec2Model ----
(***************************************************************************)
(* Model of the benchmark driver of hyperfine (src/benchmark/mod.rs):      *)
(* Benchmark::run with its setup / warmup / initial measurement /          *)
(* measurement loop / cleanup phases, the hooks it runs through            *)
(* run_intermediate_command, and the executor it consumes; the counter     *)
(* aggregator aggregate_poop_metrics, the derived ratios of PoopMetrics    *)
(* (src/poop_metrics/types.rs) and the warnings of a benchmark.            *)
(*                                                                         *)
(* Times are integers in milliseconds.  An Option<T> is the set {} (None)  *)
(* or {x} (Some(x)).                                                       *)
(***************************************************************************)
EXTENDS Integers, Sequences, FiniteSets, TLC

\* ------------------------------------------------------------------ bounds

\* largest warmup_count explored
MaxWarmup == 1
\* largest run_bounds.min explored; run_bounds.max is None or in 0..MaxRuns+1
MaxRuns == 2
\* the measurement loop is followed until this many samples are stored
MaxMeasured == 3

\* wall-clock times (ms) the executor may report
TimeValues == {0, 5}
\* the time of a measured run after the initial one is only stored (count is
\* decided from the initial run), so one value stands for it
LaterTimeValues == {5}
\* values of Executor::time_overhead() (ms)
OverheadValues == {0, 1}
\* values of options.min_benchmarking_time (ms)
BudgetValues == {0, 12}
\* exit codes of a command
ExitCodes == {0, 1}

\* u64::MAX.  TLC's integers are 32 bits wide, so the largest of them stands
\* for it; every other quantity of the model is far below it.
U64_MAX == 2147483647

\* ------------------------------------------------------------- data model

None == {}
Some(x) == {x}
IsSome(o) == o # {}
Unwrap(o) == CHOOSE x \in o : TRUE

Max2(a, b) == IF a >= b THEN a ELSE b
Min2(a, b) == IF a <= b THEN a ELSE b

\* An error message is the sequence of the pieces of its text.
\* error_output of run_setup_command, run_cleanup_command,
\* run_preparation_command and run_conclusion_command
ErrorOutput(hook) ==
    <<"The ", hook, " command terminated with a non-zero exit code. Append '",
      " || true", "' to the command if you are sure that this can be ignored.">>
SetupError == ErrorOutput("setup")
CleanupError == ErrorOutput("cleanup")
PreparationError == ErrorOutput("preparation")
ConclusionError == ErrorOutput("conclusion")

\* errors the executor itself produces
SpawnError == <<"Failed to run command: ", "os error">>
ExitCodeError == <<"Command terminated with non-zero exit code">>
NoError == <<>>

\* ---------------------------------------------------------------- counters

\* the seven slots of a PoopMetrics, in the order of its fields
MetricSlots == {"cpu_cycles", "instructions", "cache_references", "cache_misses",
                "branches", "branch_misses", "page_faults"}

\* PoopMetrics::new(): every slot absent
NewPoopMetrics == [s \in MetricSlots |-> None]

\* PoopMetrics::has_data
has_data(m) == \E s \in MetricSlots : IsSome(m[s])

\* a + b on u64 in a build without overflow checks, and whether it overflows
WrappingAdd(a, b) == IF a > U64_MAX - b THEN a - (U64_MAX - b) - 1 ELSE a + b
AddOverflows(a, b) == a > U64_MAX - b

\* Iterator::sum::<u64>() as a build without overflow checks computes it
RECURSIVE WrappingSum(_)
WrappingSum(vs) ==
    IF vs = <<>> THEN 0
    ELSE WrappingAdd(WrappingSum(SubSeq(vs, 1, Len(vs) - 1)), vs[Len(vs)])

\* whether an addition of Iterator::sum::<u64>() overflows
RECURSIVE SumOverflows(_)
SumOverflows(vs) ==
    /\ vs # <<>>
    /\ \/ SumOverflows(SubSeq(vs, 1, Len(vs) - 1))
       \/ AddOverflows(WrappingSum(SubSeq(vs, 1, Len(vs) - 1)), vs[Len(vs)])

\* timing_results.iter().filter_map(|tr| tr.poop_metrics.as_ref()).collect()
RECURSIVE FilterMapPoopMetrics(_)
FilterMapPoopMetrics(trs) ==
    IF trs = <<>> THEN <<>>
    ELSE (IF IsSome(Head(trs).poop_metrics)
          THEN <<Unwrap(Head(trs).poop_metrics)>> ELSE <<>>)
         \o FilterMapPoopMetrics(Tail(trs))

\* metrics.iter().filter_map(|m| m.<slot>): the values present in one slot
RECURSIVE FilterMapSlot(_, _)
FilterMapSlot(ms, s) ==
    IF ms = <<>> THEN <<>>
    ELSE (IF IsSome(Head(ms)[s]) THEN <<Unwrap(Head(ms)[s])>> ELSE <<>>)
         \o FilterMapSlot(Tail(ms), s)

\* one `if <slot>_count > 0 { aggregated.<slot> = Some(sum / count) }`
AggregateSlot(ms, s) ==
    LET present == FilterMapSlot(ms, s)
    IN  IF Len(present) > 0
        THEN Some(WrappingSum(present) \div Len(present))
        ELSE None

\* aggregate_poop_metrics: what a call gives.  A sum that overflows panics in a
\* build with overflow checks and wraps in a build without them.
aggregate_poop_metrics(trs) ==
    LET metrics_with_data == FilterMapPoopMetrics(trs)
    IN  IF metrics_with_data = <<>>
        THEN {[panic |-> FALSE, value |-> None]}
        ELSE {[panic |-> FALSE,
               value |-> Some([s \in MetricSlots |->
                                   AggregateSlot(metrics_with_data, s)])]}
             \cup (IF \E s \in MetricSlots :
                          SumOverflows(FilterMapSlot(metrics_with_data, s))
                   THEN {[panic |-> TRUE, value |-> None]}
                   ELSE {})

\* a derived ratio scale * num / den, kept as its three terms
Ratio(num, den, scale) == [num |-> num, den |-> den, scale |-> scale]

\* mutant: the guard on the denominator admits 0
cache_miss_rate_ZeroAllowed(m) ==
    IF IsSome(m["cache_references"]) /\ IsSome(m["cache_misses"])
       /\ Unwrap(m["cache_references"]) >= 0
    THEN Some(Ratio(Unwrap(m["cache_misses"]), Unwrap(m["cache_references"]), 100))
    ELSE None

\* PoopMetrics::cache_miss_rate
cache_miss_rate(m) ==
    IF IsSome(m["cache_references"]) /\ IsSome(m["cache_misses"])
       /\ Unwrap(m["cache_references"]) > 0
    THEN Some(Ratio(Unwrap(m["cache_misses"]), Unwrap(m["cache_references"]), 100))
    ELSE None

\* PoopMetrics::branch_miss_rate
branch_miss_rate(m) ==
    IF IsSome(m["branches"]) /\ IsSome(m["branch_misses"])
       /\ Unwrap(m["branches"]) > 0
    THEN Some(Ratio(Unwrap(m["branch_misses"]), Unwrap(m["branches"]), 100))
    ELSE None

\* PoopMetrics::instructions_per_cycle
instructions_per_cycle(m) ==
    IF IsSome(m["instructions"]) /\ IsSome(m["cpu_cycles"])
       /\ Unwrap(m["cpu_cycles"]) > 0
    THEN Some(Ratio(Unwrap(m["instructions"]), Unwrap(m["cpu_cycles"]), 1))
    ELSE None

VARIABLES
    options,              \* the read-only Options of this benchmark
    overhead,             \* executor.time_overhead()
    pc,                   \* position of Benchmark::run
    i,                    \* loop variable of the warmup / measurement loop
    times_real,           \* Vec<Second>
    memory_usage_byte,    \* Vec<u64>
    exit_codes,           \* Vec<Option<i32>>
    all_succeeded,        \* bool
    res,                  \* (res, status) of the initial timing run
    preparation_result,   \* Option<Second>: time_real of the prepare hook's result
    preparation_overhead, \* Second
    conclusion_result,    \* Option<Second>: time_real of the conclude hook's result
    conclusion_overhead,  \* Second
    count,                \* Option<u64>: count, once determined
    count_remaining,      \* u64
    timing_results,       \* Vec<TimingResult>: the poop_metrics of each
    aggregated_poop_metrics, \* Option<PoopMetrics>
    warnings,             \* Vec<Warnings> as printed
    derived,              \* the last derived ratio computed, and of what
    outcome,              \* what run() returned: None, or Some(Ok / Err(e))
    calls,                \* every run_command_and_measure call made, in order
    cpc,                  \* the life of the PerfEventsCollector: new, ready, dropped
    requested,            \* the metrics argument of PerfEventsCollector::new
    collector,            \* PerfEventsCollector: the descriptor of each slot's counter
    counting,             \* kernel: whether the counter of a slot is counting
    closes,               \* kernel: the close calls made on each descriptor
    last                  \* the last call on the collector: system calls and return

vars == <<options, overhead, pc, i, times_real, memory_usage_byte, exit_codes,
          all_succeeded, res, preparation_result, preparation_overhead,
          conclusion_result, conclusion_overhead, count, count_remaining,
          timing_results, aggregated_poop_metrics, warnings, derived, outcome,
          calls, cpc, requested, collector, counting, closes, last>>

\* ----------------------------------------------------- the perf collector
\* PerfEventsCollector: new, enable, disable, read and drop, against a kernel
\* in which every perf_event_open, ioctl and read may fail.

\* mutant: the slots are gone through from the last to the first
CounterOrder_Reversed ==
    <<"page_faults", "branch_misses", "branches", "cache_misses",
      "cache_references", "instructions", "cpu_cycles">>

\* the slots in the order the collector's functions go through them
CounterOrder == <<"cpu_cycles", "instructions", "cache_references",
                  "cache_misses", "branches", "branch_misses", "page_faults">>
\* the position of a slot in that order
SlotIndex(s) == CHOOSE k \in 1..Len(CounterOrder) : CounterOrder[k] = s

\* the lowest descriptor a process may be given, and those seven opens may give
FirstFd == 3
Fds == FirstFd..(FirstFd + Len(CounterOrder) - 1)

\* the metrics arguments explored; the empty one asks for all
RequestSets == {{}, {"cpu_cycles"}, {"instructions", "page_faults"},
                {"cache_references", "cache_misses", "branches"}}

\* one system call on behalf of a counter
Syscall(op, s, ok, fd) == [op |-> op, slot |-> s, ok |-> ok, fd |-> fd]
\* io::Error::last_os_error() after a failed system call
OsError(call) == <<"os error", call.op, call.slot>>

\* what a call of one of the collector's functions did and returned
Returns(call, syscalls, ok, err, value) ==
    [call |-> call, syscalls |-> syscalls, ok |-> ok, err |-> err,
     value |-> value]
NoCall == Returns("none", <<>>, TRUE, NoError, None)

\* no collector has been constructed; metrics is what new will be given
Unconstructed(metrics) ==
    /\ cpc = "new"
    /\ requested = metrics
    /\ collector = [s \in MetricSlots |-> None]
    /\ counting = [s \in MetricSlots |-> FALSE]
    /\ closes = [fd \in Fds |-> 0]
    /\ last = NoCall

perf == <<cpc, requested, collector, counting, closes, last>>

\* ---------------------------------------------------------------- executor

\* BenchmarkIteration
Warmup(n) == [kind |-> "Warmup", n |-> n]
Benchmark(n) == [kind |-> "Benchmark", n |-> n]
NonBenchmarkRun == [kind |-> "NonBenchmarkRun", n |-> 0]

\* The failure action the executor applies to one call: the caller's override
\* when given; otherwise raise for hook runs, ignore for warmup runs and
\* options.command_failure_action for benchmark runs.
EffectiveFailureAction(iteration, fa) ==
    IF IsSome(fa) THEN Unwrap(fa)
    ELSE IF iteration.kind = "NonBenchmarkRun" THEN "RaiseError"
    ELSE IF iteration.kind = "Warmup" THEN "Ignore"
    ELSE options.command_failure_action

\* memory_usage_byte of the TimingResult a call returns: the model lets every
\* call report its own serial number, so that a stored value shows its origin
MemoryOfCall == Len(calls) + 1

\* What one run of a command that took t ms, exited with code c and had the
\* counter sample p collected gives.
Measured(t, c, p, action) ==
    IF c # 0 /\ action = "RaiseError"
    THEN [ok |-> FALSE, err |-> ExitCodeError, time_real |-> 0,
          memory_usage_byte |-> 0, code |-> Some(c), poop_metrics |-> None]
    ELSE [ok |-> TRUE, err |-> NoError, time_real |-> t,
          memory_usage_byte |-> MemoryOfCall, code |-> Some(c),
          poop_metrics |-> p]

\* the counter samples a run may carry: every slot absent, as when no counter
\* could be opened, or every slot counted
CounterSamples == {NewPoopMetrics, [s \in MetricSlots |-> Some(1)]}

\* a sample with every slot counted: like its memory, the model lets every
\* call count its own serial number, so that a stored sample shows its origin
SampleOfCall == [s \in MetricSlots |-> Some(Len(calls) + 1)]

\* TimingResult::poop_metrics of a run: a sample is collected only when
\* options.poop_metrics_enabled, and may be missing or empty even then
CollectedMetrics ==
    IF options.poop_metrics_enabled
    THEN {None, Some(NewPoopMetrics), Some(SampleOfCall)}
    ELSE {None}

\* the wall clock times a call may take
RunTimes(iteration) ==
    IF iteration.kind = "Benchmark" /\ iteration.n > 0
    THEN LaterTimeValues ELSE TimeValues

\* Executor::run_command_and_measure: every Result<(TimingResult, ExitStatus)>
\* a call may return.  The process may fail to spawn (an OS error), or run for
\* some time and exit with some code.
run_command_and_measure(iteration, fa) ==
    {[ok |-> FALSE, err |-> SpawnError, time_real |-> 0,
      memory_usage_byte |-> 0, code |-> None, poop_metrics |-> None]}
    \cup {Measured(t, c, p, EffectiveFailureAction(iteration, fa)) :
              t \in RunTimes(iteration), c \in ExitCodes, p \in CollectedMetrics}

\* ExitStatus::success and util::exit_code::extract_exit_code
success(r) == r.code = Some(0)
extract_exit_code(r) == r.code

\* The record `calls` keeps of one executor call.
Call(command, iteration, fa, r) ==
    [command |-> command, iteration |-> iteration, failure_action |-> fa,
     ok |-> r.ok, err |-> r.err, code |-> r.code]

\* ------------------------------------------------------------------ hooks

\* mutant: the override is left out
IntermediateFailureAction_Forgotten == None

\* the iteration tag and failure-action override run_intermediate_command passes
IntermediateIteration == NonBenchmarkRun
IntermediateFailureAction == Some("RaiseError")

\* .map_err(|_| anyhow!(error_output))
IntermediateMapErr(e, error_output) == error_output

\* run_intermediate_command: the executor's result r as the caller gets it,
\* .map(|r| r.0) and .map_err(|_| anyhow!(error_output))
run_intermediate_command(r, error_output) ==
    [ok |-> r.ok, time_real |-> r.time_real,
     err |-> IF r.ok THEN NoError ELSE IntermediateMapErr(r.err, error_output)]

HookCall(command, r) ==
    Call(command, IntermediateIteration, IntermediateFailureAction, r)

\* mutant: warmup runs are made to raise
WarmupFailureAction_Raise == Some("RaiseError")

\* the override Benchmark::run passes for warmup runs (line 308) and for
\* benchmark runs (lines 340, 403) of the command
WarmupFailureAction == None
BenchmarkFailureAction == None

\* --------------------------------------------------- count determination

\* (min_benchmarking_time / denominator) as u64: an f64 division (x / 0.0 is
\* +inf, 0.0 / 0.0 is NaN) followed by a saturating cast (NaN gives 0).
F64DivAsU64(num, den) ==
    IF den = 0 THEN (IF num = 0 THEN 0 ELSE U64_MAX)
    ELSE Min2(num \div den, U64_MAX)

\* mutant: the executor's overhead is not added to the hook's time
HookOverhead_TimeOnly(hook_result, ov) ==
    IF IsSome(hook_result) THEN Unwrap(hook_result) ELSE 0

\* res.map_or(0.0, |res| res.time_real + self.executor.time_overhead())
HookOverhead(hook_result, ov) ==
    IF IsSome(hook_result) THEN Unwrap(hook_result) + ov ELSE 0

runs_in_min_time(min_benchmarking_time, time_real, ov, po, co) ==
    F64DivAsU64(min_benchmarking_time, time_real + ov + po + co)

\* mutant: cmp::max where cmp::min is meant
Count_MaxForMin(runs, run_min, run_max) ==
    LET min == Max2(runs, run_min)
    IN  IF IsSome(run_max) THEN Max2(min, Unwrap(run_max)) ELSE min

Count(runs, run_min, run_max) ==
    LET min == Max2(runs, run_min)
    IN  IF IsSome(run_max) THEN Min2(min, Unwrap(run_max)) ELSE min

\* ------------------------------------------------------------------- state

NoRes == [ok |-> FALSE, err |-> NoError, time_real |-> 0,
          memory_usage_byte |-> 0, code |-> None, poop_metrics |-> None]
Running == [kind |-> "Running", err |-> NoError, times |-> <<>>,
            memory_usage_byte |-> <<>>, exit_codes |-> <<>>,
            stddev |-> None, poop_metrics |-> None, poop_metrics_all |-> None]
\* no derived ratio computed yet
NoDerived == [fn |-> "none", of |-> NewPoopMetrics, value |-> None]

OptionsSet ==
    [warmup_count : 0..MaxWarmup,
     run_bounds_min : 1..MaxRuns,
     run_bounds_max : {None} \cup {Some(n) : n \in 0..(MaxRuns + 1)},
     min_benchmarking_time : BudgetValues,
     command_failure_action : {"RaiseError", "Ignore"},
     setup_command : BOOLEAN,
     cleanup_command : BOOLEAN,
     preparation_command : BOOLEAN,
     conclusion_command : BOOLEAN,
     \* read by the warnings only: explored by ReportSpec
     executor_kind : {"Raw"},
     poop_metrics_enabled : {FALSE}]

Init ==
    /\ options \in OptionsSet
    /\ overhead \in OverheadValues
    /\ pc = "setup"
    /\ i = 0
    /\ times_real = <<>>
    /\ memory_usage_byte = <<>>
    /\ exit_codes = <<>>
    /\ all_succeeded = TRUE
    /\ res = NoRes
    /\ preparation_result = None
    /\ preparation_overhead = 0
    /\ conclusion_result = None
    /\ conclusion_overhead = 0
    /\ count = None
    /\ count_remaining = 0
    /\ timing_results = <<>>
    /\ aggregated_poop_metrics = None
    /\ warnings = <<>>
    /\ derived = NoDerived
    /\ outcome = Running
    /\ calls = <<>>
    /\ Unconstructed({})

lists == <<times_real, memory_usage_byte, exit_codes, timing_results,
           all_succeeded>>
locals == <<i, preparation_result, preparation_overhead, conclusion_result,
            conclusion_overhead, count>>
fixed == <<options, overhead, derived, perf>>
report == <<aggregated_poop_metrics, warnings>>

\* `?` on an Err(e): run() returns Err(e)
Raise(e) ==
    /\ pc' = "done"
    /\ outcome' = [Running EXCEPT !.kind = "Err", !.err = e]

\* One optional hook (run_setup_command, run_cleanup_command and the closures
\* run_preparation_command and run_conclusion_command): every Result<Option<..>>
\* it may give.  Not configured, nothing is called and the result is Ok(None).
HookOutcomes(configured, error_output) ==
    IF configured
    THEN {[called |-> TRUE, raw |-> raw,
           ok |-> run_intermediate_command(raw, error_output).ok,
           result |-> IF raw.ok THEN Some(raw.time_real) ELSE None,
           err |-> run_intermediate_command(raw, error_output).err] :
             raw \in run_command_and_measure(IntermediateIteration,
                                             IntermediateFailureAction)}
    ELSE {[called |-> FALSE, raw |-> NoRes, ok |-> TRUE, result |-> None,
           err |-> NoError]}

\* mutant: the error of the hook is dropped and next follows
HookStep_Continue(command, h, next) ==
    /\ calls' = IF h.called THEN Append(calls, HookCall(command, h.raw)) ELSE calls
    /\ next /\ UNCHANGED outcome

\* The hook's call, then `?`: its error is returned from run(); otherwise
\* next follows.
HookStep(command, h, next) ==
    /\ calls' = IF h.called THEN Append(calls, HookCall(command, h.raw)) ELSE calls
    /\ IF h.ok
       THEN next /\ UNCHANGED outcome
       ELSE Raise(h.err) /\ UNCHANGED locals

\* ------------------------------------------------------------------ phases

\* mutant: the Result of the setup command is dropped instead of `?`
RunSetup_Unchecked ==
    /\ pc = "setup"
    /\ IF options.setup_command
       THEN \E raw \in run_command_and_measure(IntermediateIteration,
                                               IntermediateFailureAction) :
               calls' = Append(calls, HookCall("setup", raw))
       ELSE UNCHANGED calls
    /\ pc' = IF options.warmup_count > 0 THEN "warmup_prepare" ELSE "initial_prepare"
    /\ UNCHANGED <<fixed, locals, lists, res, count_remaining, report, outcome>>

\* line 289: self.run_setup_command(...)?, then line 292
AfterSetup(result) ==
    /\ pc' = IF options.warmup_count > 0 THEN "warmup_prepare" ELSE "initial_prepare"
    /\ UNCHANGED locals

RunSetup ==
    /\ pc = "setup"
    /\ \E h \in HookOutcomes(options.setup_command, SetupError) :
          HookStep("setup", h, AfterSetup(h.result))
    /\ UNCHANGED <<fixed, lists, res, count_remaining, report>>

\* line 304
AfterWarmupPrepare(result) ==
    /\ pc' = "warmup_command"
    /\ UNCHANGED locals

WarmupPrepare ==
    /\ pc = "warmup_prepare"
    /\ \E h \in HookOutcomes(options.preparation_command, PreparationError) :
          HookStep("prepare", h, AfterWarmupPrepare(h.result))
    /\ UNCHANGED <<fixed, lists, res, count_remaining, report>>

\* mutant: the result of a warmup run is saved like that of a measured run
WarmupCommand_Saved ==
    /\ pc = "warmup_command"
    /\ \E r \in run_command_and_measure(Warmup(i), WarmupFailureAction) :
          /\ calls' = Append(calls, Call("command", Warmup(i), WarmupFailureAction, r))
          /\ IF r.ok
             THEN /\ pc' = "warmup_conclude"
                  /\ times_real' = Append(times_real, r.time_real)
                  /\ memory_usage_byte' = Append(memory_usage_byte, r.memory_usage_byte)
                  /\ exit_codes' = Append(exit_codes, extract_exit_code(r))
                  /\ timing_results' = Append(timing_results,
                                              [poop_metrics |-> r.poop_metrics])
                  /\ UNCHANGED <<all_succeeded, outcome>>
             ELSE Raise(r.err) /\ UNCHANGED lists
    /\ UNCHANGED <<fixed, locals, res, count_remaining, report>>

\* lines 305-310
WarmupCommand ==
    /\ pc = "warmup_command"
    /\ \E r \in run_command_and_measure(Warmup(i), WarmupFailureAction) :
          /\ calls' = Append(calls, Call("command", Warmup(i), WarmupFailureAction, r))
          /\ IF r.ok
             THEN pc' = "warmup_conclude" /\ UNCHANGED outcome
             ELSE Raise(r.err)
    /\ UNCHANGED <<fixed, locals, lists, res, count_remaining, report>>

\* lines 311-315, and the end of `for i in 0..self.options.warmup_count`
AfterWarmupConclude(result) ==
    /\ i' = IF i + 1 < options.warmup_count THEN i + 1 ELSE 0
    /\ pc' = IF i + 1 < options.warmup_count THEN "warmup_prepare" ELSE "initial_prepare"
    /\ UNCHANGED <<preparation_result, preparation_overhead, conclusion_result,
                   conclusion_overhead, count>>

WarmupConclude ==
    /\ pc = "warmup_conclude"
    /\ \E h \in HookOutcomes(options.conclusion_command, ConclusionError) :
          HookStep("conclude", h, AfterWarmupConclude(h.result))
    /\ UNCHANGED <<fixed, lists, res, count_remaining, report>>

\* lines 332-334
AfterInitialPrepare(result) ==
    /\ preparation_result' = result
    /\ preparation_overhead' = HookOverhead(result, overhead)
    /\ pc' = "initial_command"
    /\ UNCHANGED <<i, conclusion_result, conclusion_overhead, count>>

InitialPrepare ==
    /\ pc = "initial_prepare"
    /\ \E h \in HookOutcomes(options.preparation_command, PreparationError) :
          HookStep("prepare", h, AfterInitialPrepare(h.result))
    /\ UNCHANGED <<fixed, lists, res, count_remaining, report>>

\* lines 337-343
InitialCommand ==
    /\ pc = "initial_command"
    /\ \E r \in run_command_and_measure(Benchmark(0), BenchmarkFailureAction) :
          /\ calls' = Append(calls, Call("command", Benchmark(0), BenchmarkFailureAction, r))
          /\ IF r.ok
             THEN pc' = "initial_conclude" /\ res' = r /\ UNCHANGED outcome
             ELSE Raise(r.err) /\ UNCHANGED res
    /\ UNCHANGED <<fixed, locals, lists, count_remaining, report>>

\* lines 345-365: the conclude hook of the initial run, then the number of runs
AfterInitialConclude(result) ==
    /\ conclusion_result' = result
    /\ conclusion_overhead' = HookOverhead(result, overhead)
    /\ count' = Some(Count(runs_in_min_time(options.min_benchmarking_time,
                                            res.time_real, overhead,
                                            preparation_overhead,
                                            HookOverhead(result, overhead)),
                           options.run_bounds_min, options.run_bounds_max))
    /\ pc' = "save_first"
    /\ UNCHANGED <<i, preparation_result, preparation_overhead>>

InitialConclude ==
    /\ pc = "initial_conclude"
    /\ \E h \in HookOutcomes(options.conclusion_command, ConclusionError) :
          HookStep("conclude", h, AfterInitialConclude(h.result))
    /\ UNCHANGED <<fixed, lists, res, count_remaining, report>>

\* mutant: the initial run is not taken off the number of runs
CountRemaining_Whole(c) == c

\* line 367: count - 1 on a u64.  With count = 0 a build with overflow checks
\* panics and a build without them wraps to u64::MAX.
CountRemaining(c) == IF c >= 1 THEN c - 1 ELSE U64_MAX

\* mutant: the exit status of the initial run is not looked at
SaveFirst_IgnoreStatus(r) ==
    /\ times_real' = Append(times_real, r.time_real)
    /\ memory_usage_byte' = Append(memory_usage_byte, r.memory_usage_byte)
    /\ exit_codes' = Append(exit_codes, extract_exit_code(r))
    /\ timing_results' = Append(timing_results, [poop_metrics |-> r.poop_metrics])
    /\ all_succeeded' = all_succeeded

\* lines 370-377: save the first result
SaveFirst(r) ==
    /\ times_real' = Append(times_real, r.time_real)
    /\ memory_usage_byte' = Append(memory_usage_byte, r.memory_usage_byte)
    /\ exit_codes' = Append(exit_codes, extract_exit_code(r))
    /\ timing_results' = Append(timing_results, [poop_metrics |-> r.poop_metrics])
    /\ all_succeeded' = (all_succeeded /\ success(r))

\* lines 367-377, and the entry of `for i in 0..count_remaining`
SaveFirstResult ==
    /\ pc = "save_first"
    /\ \/ /\ Unwrap(count) = 0
          /\ pc' = "done"
          /\ outcome' = [Running EXCEPT !.kind = "Panic",
                                        !.err = <<"attempt to subtract with overflow">>]
          /\ UNCHANGED <<count_remaining, lists>>
       \/ /\ count_remaining' = CountRemaining(Unwrap(count))
          /\ SaveFirst(res)
          /\ pc' = IF 0 < CountRemaining(Unwrap(count)) THEN "loop_prepare"
                                                        ELSE "statistics"
          /\ UNCHANGED outcome
    \* res, the hook results and the two overheads are not read after this point
    /\ res' = NoRes
    /\ preparation_result' = None
    /\ preparation_overhead' = 0
    /\ conclusion_result' = None
    /\ conclusion_overhead' = 0
    /\ UNCHANGED <<fixed, i, count, report, calls>>

\* mutant: the conclude hook is run where the command should be
AfterLoopPrepare_ConcludeFirst(result) ==
    /\ pc' = "loop_conclude"
    /\ UNCHANGED locals

\* line 389
AfterLoopPrepare(result) ==
    /\ pc' = "loop_command"
    /\ UNCHANGED locals

LoopPrepare ==
    /\ pc = "loop_prepare"
    /\ Len(times_real) < MaxMeasured
    /\ \E h \in HookOutcomes(options.preparation_command, PreparationError) :
          HookStep("prepare", h, AfterLoopPrepare(h.result))
    /\ UNCHANGED <<fixed, lists, res, count_remaining, report>>

\* mutant: the push to memory_usage_byte is missing
SaveResult_NoMemory(r) ==
    /\ times_real' = Append(times_real, r.time_real)
    /\ memory_usage_byte' = memory_usage_byte
    /\ exit_codes' = Append(exit_codes, extract_exit_code(r))
    /\ timing_results' = Append(timing_results, [poop_metrics |-> r.poop_metrics])
    /\ all_succeeded' = (all_succeeded /\ success(r))

\* mutant: all_succeeded is overwritten, not accumulated
SaveResult_LastSuccess(r) ==
    /\ times_real' = Append(times_real, r.time_real)
    /\ memory_usage_byte' = Append(memory_usage_byte, r.memory_usage_byte)
    /\ exit_codes' = Append(exit_codes, extract_exit_code(r))
    /\ timing_results' = Append(timing_results, [poop_metrics |-> r.poop_metrics])
    /\ all_succeeded' = success(r)

\* lines 406-415: save the result of one iteration
SaveResult(r) ==
    /\ times_real' = Append(times_real, r.time_real)
    /\ memory_usage_byte' = Append(memory_usage_byte, r.memory_usage_byte)
    /\ exit_codes' = Append(exit_codes, extract_exit_code(r))
    /\ timing_results' = Append(timing_results, [poop_metrics |-> r.poop_metrics])
    /\ all_succeeded' = (all_succeeded /\ success(r))

\* mutant: an Err of the command is skipped over instead of `?`
LoopCommand_SkipError ==
    /\ pc = "loop_command"
    /\ \E r \in run_command_and_measure(Benchmark(i + 1), BenchmarkFailureAction) :
          /\ calls' = Append(calls, Call("command", Benchmark(i + 1),
                                         BenchmarkFailureAction, r))
          /\ IF r.ok THEN res' = r /\ SaveResult(r)
                     ELSE UNCHANGED <<lists, res>>
    /\ pc' = "loop_conclude"
    /\ UNCHANGED <<fixed, locals, count_remaining, report, outcome>>

\* lines 400-415
LoopCommand ==
    /\ pc = "loop_command"
    /\ \E r \in run_command_and_measure(Benchmark(i + 1), BenchmarkFailureAction) :
          /\ calls' = Append(calls, Call("command", Benchmark(i + 1),
                                         BenchmarkFailureAction, r))
          /\ IF r.ok
             THEN /\ res' = r
                  /\ SaveResult(r)
                  /\ pc' = "loop_conclude"
                  /\ UNCHANGED outcome
             ELSE Raise(r.err) /\ UNCHANGED <<lists, res>>
    /\ UNCHANGED <<fixed, locals, count_remaining, report>>

\* lines 421-422, and the end of `for i in 0..count_remaining`
AfterLoopConclude(result) ==
    /\ i' = i + 1
    /\ pc' = IF i + 1 < count_remaining THEN "loop_prepare" ELSE "statistics"
    /\ UNCHANGED <<preparation_result, preparation_overhead, conclusion_result,
                   conclusion_overhead, count>>

LoopConclude ==
    /\ pc = "loop_conclude"
    /\ \E h \in HookOutcomes(options.conclusion_command, ConclusionError) :
          HookStep("conclude", h, AfterLoopConclude(h.result))
    /\ UNCHANGED <<fixed, lists, res, count_remaining, report>>

\* ---------------------------------------------------------------- warnings

\* MIN_EXECUTION_TIME: 5e-3 s, in ms
MIN_EXECUTION_TIME == 5

\* outlier_detection::OUTLIER_THRESHOLD, in thousandths of a score
OUTLIER_THRESHOLD == 14826
\* the size of a score whose median absolute deviation is 0: beyond every
\* threshold
HugeScore == 1000000000

Abs(x) == IF x < 0 THEN 0 - x ELSE x

\* xs in ascending order
Ascending(xs) == SortSeq(xs, LAMBDA a, b : a < b)

\* twice statistical::median(xs): the middle value, or the mean of the two
\* middle values (twice, so that it is an integer)
Median2(xs) ==
    LET sorted == Ascending(xs)
        n == Len(xs)
    IN  IF n % 2 = 1 THEN 2 * sorted[(n + 1) \div 2]
        ELSE sorted[n \div 2] + sorted[n \div 2 + 1]

\* n / d rounded towards 0, for d > 0
TruncDiv(n, d) == IF n >= 0 THEN n \div d ELSE 0 - ((0 - n) \div d)

\* outlier_detection::modified_zscores: (x - median) / MAD for every x, in
\* thousandths; with a median absolute deviation of 0 a sample off the median
\* scores beyond every threshold, on its side of the median
modified_zscores(xs) ==
    LET median2 == Median2(xs)
        deviations2 == [k \in 1..Len(xs) |-> Abs(2 * xs[k] - median2)]
        mad4 == Median2(deviations2)
    IN  [k \in 1..Len(xs) |->
            IF mad4 > 0 THEN TruncDiv((2 * xs[k] - median2) * 2000, mad4)
            ELSE IF 2 * xs[k] > median2 THEN HugeScore
            ELSE IF 2 * xs[k] < median2 THEN 0 - HugeScore
            ELSE 0]

\* output::warnings::Warnings
Warning(kind, time_real, context) ==
    [kind |-> kind, time_real |-> time_real, context |-> context]
FastExecutionTime == Warning("FastExecutionTime", None, None)
NonZeroExitCode == Warning("NonZeroExitCode", None, None)
SlowInitialRun(t, context) == Warning("SlowInitialRun", Some(t), Some(context))
OutliersDetected(context) == Warning("OutliersDetected", None, Some(context))
PoopMetricsUnavailable == Warning("PoopMetricsUnavailable", None, None)

\* lines 585-594
OutlierWarningOptions ==
    [warmup_in_use |-> options.warmup_count > 0,
     prepare_in_use |-> options.preparation_command]

\* mutant: a time equal to the floor counts as fast
ExecutionTimeWarnings_Inclusive(executor_kind, times) ==
    IF executor_kind = "Shell"
       /\ \E k \in 1..Len(times) : times[k] <= MIN_EXECUTION_TIME
    THEN <<FastExecutionTime>> ELSE <<>>

\* lines 570-575: check execution time
ExecutionTimeWarnings(executor_kind, times) ==
    IF executor_kind = "Shell"
       /\ \E k \in 1..Len(times) : times[k] < MIN_EXECUTION_TIME
    THEN <<FastExecutionTime>> ELSE <<>>

\* lines 577-580: check program exit codes
ExitCodeWarnings(succeeded) ==
    IF ~succeeded THEN <<NonZeroExitCode>> ELSE <<>>

\* mutant: `if` where `else if` is meant
OutlierWarnings_Both(times, context) ==
    LET scores == modified_zscores(times)
    IN  (IF scores[1] > OUTLIER_THRESHOLD
         THEN <<SlowInitialRun(times[1], context)>> ELSE <<>>)
        \o (IF \E k \in 1..Len(scores) : Abs(scores[k]) > OUTLIER_THRESHOLD
            THEN <<OutliersDetected(context)>> ELSE <<>>)

\* lines 582-603: run outlier detection
OutlierWarnings(times, context) ==
    LET scores == modified_zscores(times)
    IN  IF scores[1] > OUTLIER_THRESHOLD
        THEN <<SlowInitialRun(times[1], context)>>
        ELSE IF \E k \in 1..Len(scores) : Abs(scores[k]) > OUTLIER_THRESHOLD
        THEN <<OutliersDetected(context)>>
        ELSE <<>>

\* mutant: is_some_and where is_none_or is meant
PoopMetricsWarnings_SomeOnly(enabled, aggregated) ==
    IF enabled /\ IsSome(aggregated) /\ ~has_data(Unwrap(aggregated))
    THEN <<PoopMetricsUnavailable>> ELSE <<>>

\* lines 605-612: warn if poop metrics were requested but not collected
PoopMetricsWarnings(enabled, aggregated) ==
    IF enabled /\ (aggregated = None \/ ~has_data(Unwrap(aggregated)))
    THEN <<PoopMetricsUnavailable>> ELSE <<>>

\* lines 444 and 567-620: the counters are aggregated, then the warnings are
\* collected and printed, all before the cleanup command runs
Statistics ==
    /\ pc = "statistics"
    /\ \E aggregated \in aggregate_poop_metrics(timing_results) :
          IF aggregated.panic
          THEN /\ pc' = "done"
               /\ outcome' = [Running EXCEPT !.kind = "Panic",
                                             !.err = <<"attempt to add with overflow">>]
               /\ UNCHANGED report
          ELSE /\ aggregated_poop_metrics' = aggregated.value
               /\ warnings' =
                      ExecutionTimeWarnings(options.executor_kind, times_real)
                      \o ExitCodeWarnings(all_succeeded)
                      \o OutlierWarnings(times_real, OutlierWarningOptions)
                      \o PoopMetricsWarnings(options.poop_metrics_enabled,
                                             aggregated.value)
               /\ pc' = "cleanup"
               /\ UNCHANGED outcome
    /\ UNCHANGED <<fixed, locals, lists, res, count_remaining, calls>>

\* mutant: the vector is given even when it is empty
poop_metrics_all_Always(trs) == Some(FilterMapPoopMetrics(trs))

\* lines 628-637: poop_metrics_all
poop_metrics_all(trs) ==
    IF FilterMapPoopMetrics(trs) = <<>> THEN None
    ELSE Some(FilterMapPoopMetrics(trs))

\* standard_deviation(&times_real, Some(t_mean)), kept as the sample it is
\* computed from
standard_deviation(xs) == [sample |-> xs]

\* mutant: a single sample has a standard deviation
t_stddev_Single(xs) ==
    IF Len(xs) > 0 THEN Some(standard_deviation(xs)) ELSE None

\* lines 431-435: let t_stddev = if times_real.len() > 1 { Some(..) } else { None }
t_stddev(xs) ==
    IF Len(xs) > 1 THEN Some(standard_deviation(xs)) ELSE None

\* lines 640-661: Ok(BenchmarkResult { .. })
BenchmarkResult ==
    [kind |-> "Ok", err |-> NoError, times |-> times_real,
     stddev |-> t_stddev(times_real),
     memory_usage_byte |-> memory_usage_byte, exit_codes |-> exit_codes,
     poop_metrics |-> aggregated_poop_metrics,
     poop_metrics_all |-> poop_metrics_all(timing_results)]

\* line 626, then lines 628-661
AfterCleanup(result) ==
    /\ pc' = "done"
    /\ outcome' = BenchmarkResult
    /\ UNCHANGED locals

\* mutant: the result of the cleanup hook is not looked at
RunCleanup_Unchecked ==
    /\ pc = "cleanup"
    /\ \E h \in HookOutcomes(options.cleanup_command, CleanupError) :
          /\ calls' = IF h.called THEN Append(calls, HookCall("cleanup", h.raw))
                                  ELSE calls
          /\ AfterCleanup(h.result)
    /\ UNCHANGED <<fixed, lists, res, count_remaining, report>>

RunCleanup ==
    /\ pc = "cleanup"
    /\ \E h \in HookOutcomes(options.cleanup_command, CleanupError) :
          /\ calls' = IF h.called THEN Append(calls, HookCall("cleanup", h.raw))
                                  ELSE calls
          /\ IF h.ok THEN AfterCleanup(h.result)
                     ELSE Raise(h.err) /\ UNCHANGED locals
    /\ UNCHANGED <<fixed, lists, res, count_remaining, report>>

Next ==
    \/ RunSetup
    \/ WarmupPrepare
    \/ WarmupCommand
    \/ WarmupConclude
    \/ InitialPrepare
    \/ InitialCommand
    \/ InitialConclude
    \/ SaveFirstResult
    \/ LoopPrepare
    \/ LoopCommand
    \/ LoopConclude
    \/ Statistics
    \/ RunCleanup

Spec == Init /\ [][Next]_vars

\* --------------------------------------------------- runs with counters
\* The same driver with poop_metrics_enabled: every call of the executor may
\* carry a counter sample.

SampledOptionsSet ==
    [warmup_count : {1},
     run_bounds_min : {1, 2},
     run_bounds_max : {Some(2)},
     min_benchmarking_time : {0},
     command_failure_action : {"RaiseError", "Ignore"},
     setup_command : {TRUE},
     cleanup_command : {TRUE},
     preparation_command : BOOLEAN,
     conclusion_command : {TRUE},
     executor_kind : {"Raw"},
     poop_metrics_enabled : {TRUE}]

SampledInit ==
    /\ options \in SampledOptionsSet
    /\ overhead = 0
    /\ pc = "setup"
    /\ i = 0
    /\ times_real = <<>>
    /\ memory_usage_byte = <<>>
    /\ exit_codes = <<>>
    /\ timing_results = <<>>
    /\ all_succeeded = TRUE
    /\ res = NoRes
    /\ preparation_result = None
    /\ preparation_overhead = 0
    /\ conclusion_result = None
    /\ conclusion_overhead = 0
    /\ count = None
    /\ count_remaining = 0
    /\ aggregated_poop_metrics = None
    /\ warnings = <<>>
    /\ derived = NoDerived
    /\ outcome = Running
    /\ calls = <<>>
    /\ Unconstructed({})

SampledSpec == SampledInit /\ [][Next]_vars

\* ------------------------------------------- the report of a benchmark
\* Lines 428-661 of Benchmark::run on their own: the benchmark has made its
\* measured runs and stands before the statistics.

\* largest number of measured runs of a benchmark whose report is explored
MaxReportRuns == 3
\* wall-clock times (ms) of the measured runs: below the floor of 5 ms, on it,
\* and far above it
ReportTimes == {0, 5, 100}
\* the times (ms) of a slow first run and of an outlier in the middle
SlowFirstRun == <<5000, 100, 100, 100, 100, 100>>
MiddleOutlier == <<100, 100, 3000, 100, 100, 100>>

\* TimingResult::poop_metrics of the runs of a benchmark of n runs: nothing
\* without counters; with them the initial run carries one of the samples a
\* run may carry and the later runs another
ReportSamples(n, enabled) ==
    IF enabled
    THEN {[k \in 1..n |-> IF k = 1 THEN first ELSE later] :
              first \in {None} \cup {Some(m) : m \in CounterSamples},
              later \in {None} \cup {Some(m) : m \in CounterSamples}}
    ELSE {[k \in 1..n |-> None]}

\* The measured runs a benchmark may have made: their times, which of them
\* (0: none) exited with code 1, whether counters were enabled, and the
\* counter sample of each run.
ReportCases ==
    UNION {
        {[times |-> t, failed |-> f, samples |-> p, enabled |-> e] :
            t \in [1..n -> ReportTimes], f \in 0..n,
            p \in ReportSamples(n, e)} :
        n \in 1..MaxReportRuns, e \in BOOLEAN}
    \cup UNION {
        {[times |-> t, failed |-> 0, samples |-> p, enabled |-> e] :
            t \in {SlowFirstRun, MiddleOutlier},
            p \in ReportSamples(Len(SlowFirstRun), e)} :
        e \in BOOLEAN}

\* what the executor returned for a run that exited with code c and was kept
Kept(c) == [ok |-> TRUE, err |-> NoError, code |-> Some(c)]

\* Benchmark::run before line 428, after warmup_count warmup runs and the
\* measured runs of a case, under failure_action = ignore and with no hook but
\* (possibly) the cleanup command
ReportInit ==
    \E case \in ReportCases, w \in {0, 1}, kind \in {"Shell", "Raw"},
       cleanup \in BOOLEAN :
        LET n == Len(case.times)
            code(k) == IF k = case.failed THEN 1 ELSE 0
        IN  /\ options = [warmup_count |-> w,
                          run_bounds_min |-> n,
                          run_bounds_max |-> None,
                          min_benchmarking_time |-> 0,
                          command_failure_action |-> "Ignore",
                          setup_command |-> FALSE,
                          cleanup_command |-> cleanup,
                          preparation_command |-> FALSE,
                          conclusion_command |-> FALSE,
                          executor_kind |-> kind,
                          poop_metrics_enabled |-> case.enabled]
            /\ overhead = 0
            /\ pc = "statistics"
            /\ i = n - 1
            /\ times_real = case.times
            /\ memory_usage_byte = [k \in 1..n |-> w + k]
            /\ exit_codes = [k \in 1..n |-> Some(code(k))]
            /\ timing_results = [k \in 1..n |-> [poop_metrics |-> case.samples[k]]]
            /\ all_succeeded = (case.failed = 0)
            /\ res = NoRes
            /\ preparation_result = None
            /\ preparation_overhead = 0
            /\ conclusion_result = None
            /\ conclusion_overhead = 0
            /\ count = Some(n)
            /\ count_remaining = n - 1
            /\ aggregated_poop_metrics = None
            /\ warnings = <<>>
            /\ derived = NoDerived
            /\ outcome = Running
            /\ calls = [k \in 1..w |->
                           Call("command", Warmup(k - 1), WarmupFailureAction, Kept(0))]
                       \o [k \in 1..n |->
                           Call("command", Benchmark(k - 1), BenchmarkFailureAction,
                                Kept(code(k)))]
    /\ Unconstructed({})

ReportNext ==
    \/ Statistics
    \/ RunCleanup

ReportSpec == ReportInit /\ [][ReportNext]_vars

\* ------------------------------------------------- the counter functions
\* aggregate_poop_metrics and the derived ratios of PoopMetrics, applied to
\* the counter samples of a vector of timing results.

\* largest number of timing results handed to the aggregator
MaxSamples == 2
\* values of a counter
CounterValues == {0, 1, U64_MAX}
CounterOptions == {None} \cup {Some(v) : v \in CounterValues}
\* the slots that the derived ratios divide by
Denominators == {"cpu_cycles", "cache_references", "branches"}
\* the samples explored: one reading for the slots the ratios divide by,
\* another for the other slots
PoopMetricsSet ==
    {[s \in MetricSlots |-> IF s \in Denominators THEN den ELSE num] :
         num \in CounterOptions, den \in CounterOptions}

\* the options of a benchmark without hooks and counters
PlainOptions ==
    [warmup_count |-> 0, run_bounds_min |-> 1, run_bounds_max |-> None,
     min_benchmarking_time |-> 0, command_failure_action |-> "RaiseError",
     setup_command |-> FALSE, cleanup_command |-> FALSE,
     preparation_command |-> FALSE, conclusion_command |-> FALSE,
     executor_kind |-> "Raw", poop_metrics_enabled |-> TRUE]

\* a vector of timing results, with or without a counter sample each
CounterInit ==
    /\ \E n \in 0..MaxSamples :
          \E samples \in [1..n -> {None} \cup {Some(m) : m \in PoopMetricsSet}] :
              timing_results = [k \in 1..n |-> [poop_metrics |-> samples[k]]]
    /\ options = PlainOptions
    /\ overhead = 0
    /\ pc = "aggregate"
    /\ i = 0
    /\ times_real = <<>>
    /\ memory_usage_byte = <<>>
    /\ exit_codes = <<>>
    /\ all_succeeded = TRUE
    /\ res = NoRes
    /\ preparation_result = None
    /\ preparation_overhead = 0
    /\ conclusion_result = None
    /\ conclusion_overhead = 0
    /\ count = None
    /\ count_remaining = 0
    /\ aggregated_poop_metrics = None
    /\ warnings = <<>>
    /\ derived = NoDerived
    /\ outcome = Running
    /\ calls = <<>>
    /\ Unconstructed({})

driver == <<options, overhead, perf, i, lists, res, locals, count_remaining,
            warnings, calls>>

\* line 444: aggregate_poop_metrics(&timing_results)
Aggregate ==
    /\ pc = "aggregate"
    /\ \E aggregated \in aggregate_poop_metrics(timing_results) :
          IF aggregated.panic
          THEN /\ pc' = "done"
               /\ outcome' = [Running EXCEPT !.kind = "Panic",
                                             !.err = <<"attempt to add with overflow">>]
               /\ UNCHANGED aggregated_poop_metrics
          ELSE /\ pc' = "aggregated"
               /\ aggregated_poop_metrics' = aggregated.value
               /\ UNCHANGED outcome
    /\ UNCHANGED <<driver, derived>>

\* the samples the timing results carry
Samples == {Unwrap(timing_results[k].poop_metrics) :
                k \in {j \in 1..Len(timing_results) :
                           IsSome(timing_results[j].poop_metrics)}}

\* a call of one of the derived ratios on a sample
Derive(fn, m, value) ==
    /\ pc \in {"aggregate", "aggregated"}
    /\ derived' = [fn |-> fn, of |-> m, value |-> value]
    /\ UNCHANGED <<options, overhead, perf, pc, i, lists, res, locals,
                   count_remaining, report, outcome, calls>>

CacheMissRate ==
    \E m \in Samples : Derive("cache_miss_rate", m, cache_miss_rate(m))

BranchMissRate ==
    \E m \in Samples : Derive("branch_miss_rate", m, branch_miss_rate(m))

InstructionsPerCycle ==
    \E m \in Samples :
        Derive("instructions_per_cycle", m, instructions_per_cycle(m))

CounterNext ==
    \/ Aggregate
    \/ CacheMissRate
    \/ BranchMissRate
    \/ InstructionsPerCycle

CounterSpec == CounterInit /\ [][CounterNext]_vars

\* the variables of Benchmark::run
benchmark == <<options, overhead, derived, pc, i, lists, res, locals,
               count_remaining, report, outcome, calls>>

\* mutant: an empty request asks for nothing
should_collect_Listed(metrics, metric) == metric \in metrics

\* lines 158-161: collect_all || metrics.contains(&metric)
should_collect(metrics, metric) == metrics = {} \/ metric \in metrics

\* lines 163-221: the perf_event_open calls of new over the slots in order;
\* fails are the slots whose open the kernel refuses, fd the next descriptor
RECURSIVE OpenCounters(_, _, _, _)
OpenCounters(slots, metrics, fails, fd) ==
    IF slots = <<>> THEN <<>>
    ELSE LET s == Head(slots)
         IN  IF ~should_collect(metrics, s)
             THEN OpenCounters(Tail(slots), metrics, fails, fd)
             ELSE IF s \in fails
             THEN <<Syscall("open", s, FALSE, None)>>
                  \o OpenCounters(Tail(slots), metrics, fails, fd)
             ELSE <<Syscall("open", s, TRUE, Some(fd))>>
                  \o OpenCounters(Tail(slots), metrics, fails, fd + 1)

\* PerfCounter::new(..).ok() of slot s: the counter of the successful open
OpenedCounter(syscalls, s) ==
    IF \E k \in 1..Len(syscalls) : syscalls[k].slot = s /\ syscalls[k].ok
    THEN (CHOOSE c \in {syscalls[k] : k \in 1..Len(syscalls)} :
              c.slot = s /\ c.ok).fd
    ELSE None

\* lines 157-233
New ==
    /\ cpc = "new"
    /\ \E fails \in SUBSET MetricSlots :
          LET syscalls == OpenCounters(CounterOrder, requested, fails, FirstFd)
          IN  /\ collector' = [s \in MetricSlots |-> OpenedCounter(syscalls, s)]
              /\ last' = Returns("new", syscalls, TRUE, NoError, None)
    /\ cpc' = "ready"
    /\ UNCHANGED <<benchmark, requested, counting, closes>>

\* the slots that hold a counter
Opened == {s \in MetricSlots : IsSome(collector[s])}

\* the sets of counters on which a system call fails that are explored: none,
\* any one, and all
FailureSets == {{}, Opened} \cup {{s} : s \in Opened}

\* mutant: a failed ioctl is passed over
IoctlCounters_NoStop(op, slots, fails) ==
    [k \in 1..Len(SelectSeq(slots, LAMBDA s : IsSome(collector[s]))) |->
        LET s == SelectSeq(slots, LAMBDA t : IsSome(collector[t]))[k]
        IN  Syscall(op, s, s \notin fails, collector[s])]

\* lines 236-258 and 262-284: `if let Some(ref c) = self.slot { c.op()?; }` for
\* the slots in order; fails are the counters on which the ioctl fails
RECURSIVE IoctlCounters(_, _, _)
IoctlCounters(op, slots, fails) ==
    IF slots = <<>> THEN <<>>
    ELSE LET s == Head(slots)
         IN  IF ~IsSome(collector[s])
             THEN IoctlCounters(op, Tail(slots), fails)
             ELSE IF s \in fails
             THEN <<Syscall(op, s, FALSE, collector[s])>>
             ELSE <<Syscall(op, s, TRUE, collector[s])>>
                  \o IoctlCounters(op, Tail(slots), fails)

\* the counters an ioctl was applied to
Applied(syscalls) == {syscalls[k].slot : k \in {j \in 1..Len(syscalls) : syscalls[j].ok}}

\* Ok(()) after the last slot, or the error of the failed ioctl
IoctlReturns(call, syscalls) ==
    IF syscalls # <<>> /\ ~syscalls[Len(syscalls)].ok
    THEN Returns(call, syscalls, FALSE, OsError(syscalls[Len(syscalls)]), None)
    ELSE Returns(call, syscalls, TRUE, NoError, None)

\* lines 236-259
Enable ==
    /\ cpc = "ready"
    /\ \E fails \in FailureSets :
          LET syscalls == IoctlCounters("enable", CounterOrder, fails)
          IN  /\ counting' = [s \in MetricSlots |->
                                IF s \in Applied(syscalls) THEN TRUE ELSE counting[s]]
              /\ last' = IoctlReturns("enable", syscalls)
    /\ UNCHANGED <<benchmark, cpc, requested, collector, closes>>

\* lines 262-285
Disable ==
    /\ cpc = "ready"
    /\ \E fails \in FailureSets :
          LET syscalls == IoctlCounters("disable", CounterOrder, fails)
          IN  /\ counting' = [s \in MetricSlots |->
                                IF s \in Applied(syscalls) THEN FALSE ELSE counting[s]]
              /\ last' = IoctlReturns("disable", syscalls)
    /\ UNCHANGED <<benchmark, cpc, requested, collector, closes>>

\* the value a read of the counter of slot s gives: the model lets every
\* counter count its own position, so that a field shows its origin
Reading(s) == SlotIndex(s)

\* lines 120-134: the read calls of read over the slots in order
ReadCounters(fails) ==
    LET opened == SelectSeq(CounterOrder, LAMBDA s : IsSome(collector[s]))
    IN  [k \in 1..Len(opened) |->
            Syscall("read", opened[k], opened[k] \notin fails, collector[opened[k]])]

\* mutant: a failed read gives 0
ReadField_Zero(s, fails) ==
    IF IsSome(collector[s])
    THEN (IF s \in fails THEN Some(0) ELSE Some(Reading(s)))
    ELSE None

\* self.slot.as_ref().and_then(|c| c.read_value().ok())
ReadField(s, fails) ==
    IF IsSome(collector[s])
    THEN (IF s \in fails THEN None ELSE Some(Reading(s)))
    ELSE None

\* lines 288-304
Read ==
    /\ cpc = "ready"
    /\ \E fails \in FailureSets :
          last' = Returns("read", ReadCounters(fails), TRUE, NoError,
                          Some([s \in MetricSlots |-> ReadField(s, fails)]))
    /\ UNCHANGED <<benchmark, cpc, requested, collector, counting, closes>>

\* mutant: every descriptor new might have been given is closed
Closed_Every(fd) == 1

\* lines 137-141: the close calls on descriptor fd when the collector is
\* dropped, one by the counter of each slot that holds fd
Closed(fd) == Cardinality({s \in MetricSlots : collector[s] = Some(fd)})

\* the collector goes out of scope: each field is dropped
Drop ==
    /\ cpc = "ready"
    /\ closes' = [fd \in Fds |-> closes[fd] + Closed(fd)]
    /\ cpc' = "dropped"
    /\ UNCHANGED <<benchmark, requested, collector, counting, last>>

CollectorInit ==
    /\ \E metrics \in RequestSets : Unconstructed(metrics)
    /\ options = PlainOptions
    /\ overhead = 0
    /\ pc = "setup"
    /\ i = 0
    /\ times_real = <<>>
    /\ memory_usage_byte = <<>>
    /\ exit_codes = <<>>
    /\ timing_results = <<>>
    /\ all_succeeded = TRUE
    /\ res = NoRes
    /\ preparation_result = None
    /\ preparation_overhead = 0
    /\ conclusion_result = None
    /\ conclusion_overhead = 0
    /\ count = None
    /\ count_remaining = 0
    /\ aggregated_poop_metrics = None
    /\ warnings = <<>>
    /\ derived = NoDerived
    /\ outcome = Running
    /\ calls = <<>>

CollectorNext ==
    \/ New
    \/ Enable
    \/ Disable
    \/ Read
    \/ Drop

CollectorSpec == CollectorInit /\ [][CollectorNext]_vars

\* ----------------------------------------------------------------- claims

Range(seq) == {seq[k] : k \in 1..Len(seq)}
Last(seq) == seq[Len(seq)]
Finished == pc = "done"
\* the kinds of the warnings emitted
WarningKinds == {warnings[k].kind : k \in 1..Len(warnings)}
Returned(kind) == Finished /\ outcome.kind = kind

\* the calls that ran a hook, and the calls that ran the benchmarked command
HookCommands == {"setup", "cleanup", "prepare", "conclude"}
IsBenchmarkRun(c) == c.command = "command" /\ c.iteration.kind = "Benchmark"
IsWarmupRun(c) == c.command = "command" /\ c.iteration.kind = "Warmup"
\* the measured runs that were executed: the executor returned a result
MeasuredRuns == {k \in 1..Len(calls) : IsBenchmarkRun(calls[k]) /\ calls[k].ok}
\* a run of a command failed: it did not exit with code 0, or did not start
Failed(c) == c.code # Some(0)

BoundsWellFormed ==
    /\ options.run_bounds_min >= 1
    /\ IsSome(options.run_bounds_max)
           => Unwrap(options.run_bounds_max) >= options.run_bounds_min

\* C1: whenever run() returns a BenchmarkResult and the options have
\* min_runs >= 1 and (if set) max_runs >= min_runs, the number of measured
\* runs in the result is at least min_runs and, if max_runs is set, at most
\* max_runs.
C1_CountBounds ==
    (Returned("Ok") /\ BoundsWellFormed) =>
        /\ Len(outcome.times) >= options.run_bounds_min
        /\ IsSome(options.run_bounds_max)
               => Len(outcome.times) <= Unwrap(options.run_bounds_max)

\* a result whose count the time budget raised above min_runs and max_runs cut
C1_Witness ==
    /\ Returned("Ok")
    /\ options.run_bounds_min = 1
    /\ options.run_bounds_max = Some(2)
    /\ options.min_benchmarking_time = 12
    /\ Len(outcome.times) = 2
    /\ outcome.times[1] = 0

\* C2: times, memory and exit codes always have the same length; after every
\* completed iteration of the measurement loop, and in every BenchmarkResult,
\* that length is the number of measured runs executed.
C2_VectorLengths ==
    /\ Len(times_real) = Len(memory_usage_byte)
    /\ Len(times_real) = Len(exit_codes)
    /\ pc \in {"loop_prepare", "statistics", "cleanup"}
           => Len(times_real) = Cardinality(MeasuredRuns)
    /\ Returned("Ok") =>
           LET executed == Cardinality(MeasuredRuns)
           IN  /\ Len(outcome.times) = executed
               /\ Len(outcome.memory_usage_byte) = executed
               /\ Len(outcome.exit_codes) = executed

C2_Witness ==
    /\ Returned("Ok")
    /\ Cardinality(MeasuredRuns) = 3
    /\ Len(outcome.memory_usage_byte) = 3

\* C3: under failure_action = raise, a measured run for which the executor
\* returns an error is the last call the driver makes, and run() returns an
\* error, not a BenchmarkResult.
C3_RaiseAborts ==
    options.command_failure_action = "RaiseError" =>
        \A k \in 1..Len(calls) :
            (IsBenchmarkRun(calls[k]) /\ ~calls[k].ok) =>
                /\ k = Len(calls)
                /\ Returned("Err")

\* the second measured run exits with code 1 under raise
C3_Witness ==
    /\ options.command_failure_action = "RaiseError"
    /\ calls # <<>>
    /\ IsBenchmarkRun(Last(calls))
    /\ Last(calls).iteration.n = 1
    /\ Last(calls).code = Some(1)
    /\ ~Last(calls).ok
    /\ Returned("Err")

\* the call that ran the measured run tagged Benchmark(n)
BenchmarkCall(n) ==
    CHOOSE k \in 1..Len(calls) : IsBenchmarkRun(calls[k]) /\ calls[k].iteration.n = n

\* C4: under failure_action = ignore a measured run that returns an
\* unsuccessful exit status never makes the driver stop or fail: run() fails
\* only on an error of the executor, a result has count entries, entry j of the
\* exit codes is the code of the run tagged Benchmark(j - 1), and
\* NonZeroExitCode is among the warnings iff one of them is not 0.
C4_IgnoredFailure ==
    options.command_failure_action = "Ignore" =>
        /\ Returned("Err") => ~Last(calls).ok
        /\ (pc = "cleanup" \/ Returned("Ok")) =>
               /\ Len(exit_codes) = Unwrap(count)
               /\ \A j \in 1..Len(exit_codes) :
                      exit_codes[j] = calls[BenchmarkCall(j - 1)].code
               /\ ("NonZeroExitCode" \in WarningKinds)
                      <=> (\E j \in 1..Len(exit_codes) : exit_codes[j] # Some(0))
        /\ Returned("Ok") => outcome.exit_codes = exit_codes

\* two of three measured runs exit with code 1 and a result is returned
C4_Witness ==
    /\ options.command_failure_action = "Ignore"
    /\ Returned("Ok")
    /\ outcome.exit_codes = <<Some(1), Some(0), Some(1)>>
    /\ "NonZeroExitCode" \in WarningKinds

\* C5: in the order of the calls, setup is first and cleanup is last; every
\* run of the command (warmup, initial, loop) directly follows its prepare hook
\* when one is configured, which has returned without error; every conclude
\* hook directly follows the run of the command it belongs to, which has
\* returned; a prepare hook is followed by nothing but the command, and the
\* command, when a conclude hook is configured, by nothing but that hook.
C5_PrepareCommandConclude ==
    /\ (options.setup_command /\ calls # <<>>) => calls[1].command = "setup"
    /\ \A k \in 1..Len(calls) :
           LET c == calls[k]
           IN  /\ c.command = "setup" => k = 1
               /\ c.command = "cleanup" => (k = Len(calls) /\ Finished)
               /\ c.command = "command" =>
                      IF options.preparation_command
                      THEN k > 1 /\ calls[k - 1].command = "prepare" /\ calls[k - 1].ok
                      ELSE k > 1 => calls[k - 1].command # "prepare"
               /\ (c.command = "prepare" /\ k < Len(calls))
                      => calls[k + 1].command = "command"
               /\ c.command = "conclude" =>
                      (k > 1 /\ calls[k - 1].command = "command" /\ calls[k - 1].ok)
               /\ (c.command = "command" /\ k < Len(calls) /\ options.conclusion_command)
                      => calls[k + 1].command = "conclude"
               /\ (c.command = "prepare" /\ k > 1) =>
                      calls[k - 1].command = (IF options.conclusion_command
                                              THEN "conclude" ELSE "command")
                      \/ (k = 2 /\ calls[1].command = "setup")

\* a benchmark with every hook, one warmup run and two measured runs
C5_Witness ==
    /\ Returned("Ok")
    /\ Len(calls) = 11
    /\ calls[1].command = "setup"
    /\ calls[3].iteration = Warmup(0)
    /\ calls[6].iteration = Benchmark(0)
    /\ calls[8].command = "prepare"
    /\ calls[9].iteration = Benchmark(1)
    /\ calls[10].command = "conclude"
    /\ calls[11].command = "cleanup"

\* C6: a setup hook that fails is the only call ever made and run() returns
\* an error; without a setup hook no setup call is made.
C6_SetupFailureAborts ==
    /\ (calls # <<>> /\ calls[1].command = "setup" /\ Failed(calls[1])) =>
           /\ Len(calls) = 1
           /\ Returned("Err")
    /\ \A k \in 1..Len(calls) :
           calls[k].command = "setup" => (options.setup_command /\ k = 1)
    /\ (options.setup_command /\ calls # <<>>) => calls[1].command = "setup"

C6_Witness ==
    /\ Len(calls) = 1
    /\ calls[1].command = "setup"
    /\ calls[1].code = Some(1)
    /\ options.warmup_count > 0
    /\ options.cleanup_command
    /\ Returned("Err")

\* the word by which the error message of a hook names it
HookName(command) ==
    CASE command = "setup" -> "setup"
      [] command = "cleanup" -> "cleanup"
      [] command = "prepare" -> "preparation"
      [] command = "conclude" -> "conclusion"

\* C7: every hook call is tagged NonBenchmarkRun and carries the override
\* Some(RaiseError); a hook that fails is the last call, and run() returns an
\* error whose message names that hook and suggests ' || true', whatever
\* failure_action is.
C7_HookFailure ==
    \A k \in 1..Len(calls) :
        calls[k].command \in HookCommands =>
            /\ calls[k].iteration = NonBenchmarkRun
            /\ calls[k].failure_action = Some("RaiseError")
            /\ Failed(calls[k]) =>
                   /\ k = Len(calls)
                   /\ Returned("Err")
                   /\ Len(outcome.err) = 5
                   /\ outcome.err[2] = HookName(calls[k].command)
                   /\ outcome.err[4] = " || true"

\* under failure_action = ignore the conclude hook of the second measured run
\* exits with code 1
C7_Witness ==
    /\ options.command_failure_action = "Ignore"
    /\ Returned("Err")
    /\ Last(calls).command = "conclude"
    /\ Last(calls).code = Some(1)
    /\ Len(times_real) = 2
    /\ outcome.err[2] = "conclusion"

\* the warmup runs made so far
WarmupRuns == {k \in 1..Len(calls) : IsWarmupRun(calls[k])}
MeasuredPhase == {"initial_prepare", "initial_command", "initial_conclude",
                  "save_first", "loop_prepare", "loop_command", "loop_conclude",
                  "statistics", "cleanup"}

C9_UnderlyingErrorCarried ==
    \A k \in 1..Len(calls) :
        (~calls[k].ok /\ calls[k].err = SpawnError) =>
            /\ Returned("Err")
            /\ \E j \in 1..Len(outcome.err) : outcome.err[j] = SpawnError[2]

\* C10 as claimed, from the hook times themselves
ClaimedHookShare(configured, hook_result) ==
    IF configured THEN Unwrap(hook_result) + overhead ELSE 0
ClaimedDenominator ==
    res.time_real + overhead
        + ClaimedHookShare(options.preparation_command, preparation_result)
        + ClaimedHookShare(options.conclusion_command, conclusion_result)
ClaimedRunsInBudget == options.min_benchmarking_time \div ClaimedDenominator
ClaimedCount ==
    IF IsSome(options.run_bounds_max)
    THEN Min2(Max2(ClaimedRunsInBudget, options.run_bounds_min),
              Unwrap(options.run_bounds_max))
    ELSE Max2(ClaimedRunsInBudget, options.run_bounds_min)

\* C10: once the initial run and its hooks have returned, count is
\* min(max(floor(min_total_time / (t0 + ov + P + C)), min_runs), max_runs),
\* the min only with max_runs set, P = p + ov with a prepare hook and else 0,
\* C = c + ov with a conclude hook and else 0 (for a denominator above 0).
C10_CountFormula ==
    (pc = "save_first" /\ ClaimedDenominator > 0) => count = Some(ClaimedCount)

\* both hooks configured, every time 0 and an overhead of 1: 12 / 3 = 4 runs
C10_Witness ==
    /\ pc = "save_first"
    /\ options.preparation_command
    /\ options.conclusion_command
    /\ options.run_bounds_max = None
    /\ options.run_bounds_min = 1
    /\ ClaimedDenominator = 3
    /\ count = Some(4)

\* C11 (as claimed): the count that count determination produces is at least
\* 1 whatever min_runs and max_runs are, max_runs = 0 included, so that
\* count - 1 neither panics nor wraps.
C11_CountAtLeastOne ==
    /\ IsSome(count) => Unwrap(count) >= 1
    /\ outcome.kind # "Panic"

\* the calls that ran the command, in order
CommandCalls == SelectSeq(calls, LAMBDA c : c.command = "command")
\* the tag of the j-th run of the command
ExpectedTag(j) ==
    IF j <= options.warmup_count THEN Warmup(j - 1)
    ELSE Benchmark(j - 1 - options.warmup_count)
\* how often a command or hook was called
NumberOf(command) ==
    Cardinality({k \in 1..Len(calls) : calls[k].command = command})
\* how often a hook is called in a benchmark of n runs of the command
HookRuns(configured, n) == IF configured THEN n ELSE 0

\* C12: the runs of the command are tagged Warmup(0 .. warmup_count - 1) and
\* then Benchmark(0 ..), each tag once and in this order; a call that returned
\* an error or a hook that failed is the last call; and when a result is
\* returned the command ran warmup_count + count times, each configured prepare
\* and conclude hook as often, and setup and cleanup once if configured.
C12_NoRetry ==
    /\ LET runs == CommandCalls
       IN  \A j \in 1..Len(runs) : runs[j].iteration = ExpectedTag(j)
    /\ \A k \in 1..(Len(calls) - 1) :
           /\ calls[k].ok
           /\ calls[k].command \in HookCommands => calls[k].code = Some(0)
    /\ Returned("Ok") =>
           LET n == options.warmup_count + Unwrap(count)
           IN  /\ NumberOf("command") = n
               /\ NumberOf("prepare") = HookRuns(options.preparation_command, n)
               /\ NumberOf("conclude") = HookRuns(options.conclusion_command, n)
               /\ NumberOf("setup") = HookRuns(options.setup_command, 1)
               /\ NumberOf("cleanup") = HookRuns(options.cleanup_command, 1)

\* one warmup run and three measured runs, the second of which fails and is
\* ignored, with every hook configured
C12_Witness ==
    /\ Returned("Ok")
    /\ options.warmup_count = 1
    /\ count = Some(3)
    /\ Len(calls) = 14
    /\ NumberOf("command") = 4
    /\ NumberOf("prepare") = 4
    /\ outcome.exit_codes[2] = Some(1)

\* C15: once the warnings are emitted, NonZeroExitCode is among them iff a
\* measured run (the initial one or one of the loop) exited unsuccessfully;
\* the exit codes of warmup runs play no part.
C15_NonZeroExitCode ==
    (pc = "cleanup" \/ Returned("Ok")) =>
        ("NonZeroExitCode" \in WarningKinds
            <=> \E k \in 1..Len(calls) :
                    IsBenchmarkRun(calls[k]) /\ calls[k].code # Some(0))

\* the warmup run fails, every measured run succeeds, and no warning is given
C15_Witness ==
    /\ Returned("Ok")
    /\ \E k \in 1..Len(calls) : IsWarmupRun(calls[k]) /\ calls[k].code = Some(1)
    /\ Len(outcome.exit_codes) = 2
    /\ warnings = <<>>

\* the warnings of the benchmark have been emitted
WarningsEmitted == pc = "cleanup" \/ Returned("Ok")
\* the modified z-scores of the measured real times
Scores == modified_zscores(times_real)
FirstScoreHigh == Scores[1] > OUTLIER_THRESHOLD
SomeScoreBeyond == \E k \in 1..Len(times_real) : Abs(Scores[k]) > OUTLIER_THRESHOLD

\* C13: SlowInitialRun, carrying the real time of the first sample, is emitted
\* iff the score of the first sample is above the threshold; OutliersDetected
\* iff it is not and the score of some sample is beyond the threshold on either
\* side; never both.  The slow first run [5.0, 0.1, ..] gives SlowInitialRun
\* only, the middle outlier [0.1, 0.1, 3.0, ..] OutliersDetected only.
C13_OutlierClassification ==
    WarningsEmitted =>
        /\ "SlowInitialRun" \in WarningKinds <=> FirstScoreHigh
        /\ \A k \in 1..Len(warnings) :
               warnings[k].kind = "SlowInitialRun"
                   => warnings[k].time_real = Some(times_real[1])
        /\ "OutliersDetected" \in WarningKinds
               <=> (~FirstScoreHigh /\ SomeScoreBeyond)
        /\ ~({"SlowInitialRun", "OutliersDetected"} \subseteq WarningKinds)
        /\ times_real = SlowFirstRun
               => WarningKinds \cap {"SlowInitialRun", "OutliersDetected"}
                      = {"SlowInitialRun"}
        /\ times_real = MiddleOutlier
               => WarningKinds \cap {"SlowInitialRun", "OutliersDetected"}
                      = {"OutliersDetected"}

\* the slow first run of 5 s among runs of 0.1 s, after one warmup run
C13_Witness ==
    /\ Returned("Ok")
    /\ times_real = SlowFirstRun
    /\ options.warmup_count = 1
    /\ warnings = <<SlowInitialRun(5000, [warmup_in_use |-> TRUE,
                                          prepare_in_use |-> FALSE])>>

CountersMissing ==
    \/ aggregated_poop_metrics = None
    \/ ~has_data(Unwrap(aggregated_poop_metrics))

\* C16: PoopMetricsUnavailable (CountersUnavailable) is emitted iff counters
\* are enabled and the aggregated sample is absent or has no metric, whatever
\* other warnings were emitted before it.
C16_CountersUnavailable ==
    WarningsEmitted =>
        ("PoopMetricsUnavailable" \in WarningKinds
            <=> (options.poop_metrics_enabled /\ CountersMissing))

\* it follows FastExecutionTime, NonZeroExitCode and SlowInitialRun
C16_Witness ==
    /\ Returned("Ok")
    /\ options.poop_metrics_enabled
    /\ Len(warnings) = 4
    /\ warnings[1].kind = "FastExecutionTime"
    /\ warnings[2].kind = "NonZeroExitCode"
    /\ warnings[3].kind = "SlowInitialRun"
    /\ warnings[4].kind = "PoopMetricsUnavailable"

\* no measured run carries a counter sample with a metric in it
NoSampleHasData ==
    \A k \in 1..Len(timing_results) :
        \/ timing_results[k].poop_metrics = None
        \/ ~has_data(Unwrap(timing_results[k].poop_metrics))

\* C18 (as claimed): when no measured run's counter sample has a metric
\* present, be it missing or present with every slot absent, the poop_metrics
\* of the BenchmarkResult is None.
C18_NoDataGivesNone ==
    (Returned("Ok") /\ NoSampleHasData) => outcome.poop_metrics = None

\* the values of slot s in the samples the timing results carry
PresentValues(s) == FilterMapSlot(FilterMapPoopMetrics(timing_results), s)

\* the sum of vs[k] \div n, and of vs[k] % n: the terms of an exact mean that
\* stay within the integers of the checker
RECURSIVE SumOfQuotients(_, _)
SumOfQuotients(vs, n) ==
    IF vs = <<>> THEN 0 ELSE (Head(vs) \div n) + SumOfQuotients(Tail(vs), n)

RECURSIVE SumOfRemainders(_, _)
SumOfRemainders(vs, n) ==
    IF vs = <<>> THEN 0 ELSE (Head(vs) % n) + SumOfRemainders(Tail(vs), n)

\* floor(S / n) for the exact sum S of the n values vs
ExactMean(vs) ==
    LET n == Len(vs)
    IN  SumOfQuotients(vs, n) + (SumOfRemainders(vs, n) \div n)

\* the aggregate of slot s, absent when there is no aggregate at all
AggregatedSlot(s) ==
    IF IsSome(aggregated_poop_metrics)
    THEN Unwrap(aggregated_poop_metrics)[s]
    ELSE None

\* C17: for each slot, the aggregate is absent when no sample has the slot, and
\* is otherwise floor(S / n) for the exact sum S of the n present values, for
\* values anywhere in the unsigned 64-bit range; the aggregation always returns.
C17_ExactFloorMean ==
    /\ outcome.kind # "Panic"
    /\ pc = "aggregated" =>
          \A s \in MetricSlots :
              IF PresentValues(s) = <<>>
              THEN AggregatedSlot(s) = None
              ELSE AggregatedSlot(s) = Some(ExactMean(PresentValues(s)))

\* every sample has the value v for slot s
AllSamplesHave(s, v) ==
    \A k \in 1..Len(timing_results) :
        /\ IsSome(timing_results[k].poop_metrics)
        /\ Unwrap(timing_results[k].poop_metrics)[s] = v

\* C19: for a non-empty vector of samples, a slot on which every sample has
\* the same value v aggregates to v, and a slot absent in every sample
\* aggregates to absent; the aggregation always returns.
C19_RoundTrip ==
    timing_results # <<>> =>
        \A s \in MetricSlots :
            /\ (\E v \in CounterOptions : AllSamplesHave(s, v)) =>
                   outcome.kind # "Panic"
            /\ pc = "aggregated" =>
                   \A v \in CounterOptions :
                       AllSamplesHave(s, v) => AggregatedSlot(s) = v

\* the inputs of a derived ratio are there and its denominator is not 0
Defined(m, num, den) ==
    /\ IsSome(m[den])
    /\ Unwrap(m[den]) > 0
    /\ IsSome(m[num])

\* C20: cache_miss_rate, branch_miss_rate and instructions_per_cycle are
\* present exactly when the denominator is present and above 0 and the
\* numerator is present; a zero denominator or a missing input gives absent.
C20_DerivedRatios ==
    /\ derived.fn = "cache_miss_rate" =>
          (IsSome(derived.value)
              <=> Defined(derived.of, "cache_misses", "cache_references"))
    /\ derived.fn = "branch_miss_rate" =>
          (IsSome(derived.value)
              <=> Defined(derived.of, "branch_misses", "branches"))
    /\ derived.fn = "instructions_per_cycle" =>
          (IsSome(derived.value)
              <=> Defined(derived.of, "instructions", "cpu_cycles"))
    /\ IsSome(derived.value) => Unwrap(derived.value).den > 0

C20_Witness ==
    /\ derived.fn = "cache_miss_rate"
    /\ derived.of["cache_references"] = Some(0)
    /\ derived.of["cache_misses"] = Some(1)
    /\ derived.value = None

\* C21: a result has a standard deviation exactly when at least two measured
\* samples were taken; with min_runs = max_runs = 1 it has none.
C21_StddevPresence ==
    Returned("Ok") =>
        /\ IsSome(outcome.stddev) <=> Len(outcome.times) >= 2
        /\ (options.run_bounds_min = 1 /\ options.run_bounds_max = Some(1)) =>
               outcome.stddev = None

C21_Witness ==
    /\ Returned("Ok")
    /\ options.run_bounds_min = 1
    /\ options.run_bounds_max = Some(1)
    /\ Len(outcome.times) = 1
    /\ outcome.stddev = None

\* every invocation of the executor so far returned without error
AllReturned == \A k \in 1..Len(calls) : calls[k].ok

\* run() has ended in a result or in an error, and in a result exactly when
\* no invocation of the executor returned an error
OneOutcome ==
    /\ outcome.kind # "Running" <=> Finished
    /\ (Finished /\ BoundsWellFormed) =>
           /\ outcome.kind \in {"Ok", "Err"}
           /\ outcome.kind = "Ok" <=> AllReturned

vectors == <<times_real, memory_usage_byte, exit_codes, timing_results>>

\* the call among cs that ran the command as measured run n
RunTagged(cs, n) ==
    CHOOSE k \in 1..Len(cs) : IsBenchmarkRun(cs[k]) /\ cs[k].iteration.n = n

\* the counter samples the call with serial number k may have returned
SamplesOfCall(k) ==
    {None, Some(NewPoopMetrics), Some([s \in MetricSlots |-> Some(k)])}

\* entry j of every vector comes from the run tagged Benchmark(j - 1), and a
\* result holds the vectors as they are
FromMeasuredRuns ==
    /\ \A j \in 1..Len(times_real) :
           /\ \E k \in 1..Len(calls) :
                  IsBenchmarkRun(calls[k]) /\ calls[k].iteration.n = j - 1
           /\ LET k == RunTagged(calls, j - 1)
              IN  /\ calls[k].ok
                  /\ memory_usage_byte[j] = k
                  /\ exit_codes[j] = calls[k].code
                  /\ timing_results[j].poop_metrics \in SamplesOfCall(k)
    /\ Returned("Ok") =>
           /\ outcome.times = times_real
           /\ outcome.memory_usage_byte = memory_usage_byte
           /\ outcome.exit_codes = exit_codes
           /\ outcome.poop_metrics_all
                  \in {None, Some(FilterMapPoopMetrics(timing_results))}

\* a step that changes a vector appends to each of them what the measured run
\* just made returned
AppendsMeasuredRun ==
    vectors' # vectors =>
        LET r == IF pc = "save_first" THEN res ELSE res'
            n == Len(times_real)
        IN  /\ r.ok
            /\ r.memory_usage_byte = RunTagged(calls', n)
            /\ times_real' = Append(times_real, r.time_real)
            /\ memory_usage_byte' = Append(memory_usage_byte, r.memory_usage_byte)
            /\ exit_codes' = Append(exit_codes, r.code)
            /\ timing_results' = Append(timing_results,
                                        [poop_metrics |-> r.poop_metrics])

\* C27: the times, memory, exit codes and counter samples of a result hold
\* only what the measured runs of the command returned, entry j from the run
\* tagged Benchmark(j - 1); nothing of a warmup run or of a hook is appended.
C27_OnlyMeasuredRuns ==
    /\ []FromMeasuredRuns
    /\ [][AppendsMeasuredRun]_vars

\* a result of two measured runs after a failed warmup run: the first measured
\* run carried a sample, the second none
C27_Witness ==
    /\ Returned("Ok")
    /\ options.preparation_command
    /\ \E k \in 1..Len(calls) : IsWarmupRun(calls[k]) /\ calls[k].code = Some(1)
    /\ Len(outcome.times) = 2
    /\ IsSome(timing_results[1].poop_metrics)
    /\ has_data(Unwrap(timing_results[1].poop_metrics))
    /\ timing_results[2].poop_metrics = None
    /\ outcome.poop_metrics_all = Some(<<Unwrap(timing_results[1].poop_metrics)>>)

\* the measured runs of the command made so far
NumberOfMeasuredRuns ==
    Cardinality({k \in 1..Len(calls) : IsBenchmarkRun(calls[k])})

\* an invocation that returned an error is the last one and ends run() with an
\* error; the cleanup hook follows count measured runs and their conclude hooks
StopsAtFirstError ==
    /\ \A k \in 1..Len(calls) :
           ~calls[k].ok => k = Len(calls) /\ Returned("Err")
    /\ \A k \in 1..Len(calls) :
           calls[k].command = "cleanup" =>
               /\ k = Len(calls)
               /\ \A j \in 1..(k - 1) : calls[j].ok
               /\ IsSome(count)
               /\ NumberOfMeasuredRuns = Unwrap(count)
               /\ NumberOf("conclude")
                      = HookRuns(options.conclusion_command,
                                 options.warmup_count + Unwrap(count))

\* C28: after the first error an invocation of the executor returns, the
\* driver makes no further invocation: neither the conclude hook of that
\* iteration nor the cleanup hook runs; the cleanup hook runs only after all
\* count measured runs and their conclude hooks returned without error.
C28_NothingAfterError ==
    /\ []StopsAtFirstError
    /\ [][calls' # calls => AllReturned]_vars

\* the second measured run returns an error: its conclude hook and the cleanup
\* hook are configured and not run
C28_Witness ==
    /\ Returned("Err")
    /\ options.setup_command
    /\ options.conclusion_command
    /\ options.cleanup_command
    /\ IsBenchmarkRun(Last(calls))
    /\ Last(calls).iteration.n = 1
    /\ ~Last(calls).ok
    /\ NumberOf("conclude") = options.warmup_count + 1
    /\ NumberOf("cleanup") = 0

\* the measured runs that carried a counter sample, and the m-th of them
Sampled == {j \in 1..Len(timing_results) : IsSome(timing_results[j].poop_metrics)}
NthSampled(m) ==
    CHOOSE j \in Sampled : Cardinality({l \in Sampled : l <= j}) = m

\* C29: in a result poop_metrics is None iff poop_metrics_all is None; a
\* present poop_metrics_all is not empty, holds the samples of the measured
\* runs that carried one, in order, and nothing else, and is shorter than the
\* times when a run carried none.
C29_PerRunSamples ==
    Returned("Ok") =>
        /\ outcome.poop_metrics = None <=> outcome.poop_metrics_all = None
        /\ outcome.poop_metrics_all = None <=> Sampled = {}
        /\ IsSome(outcome.poop_metrics_all) =>
               LET all == Unwrap(outcome.poop_metrics_all)
               IN  /\ Len(all) >= 1
                   /\ Len(all) <= Len(outcome.times)
                   /\ Len(all) = Cardinality(Sampled)
                   /\ \A m \in 1..Len(all) :
                          Some(all[m]) = timing_results[NthSampled(m)].poop_metrics
                   /\ (\E j \in 1..Len(timing_results) :
                           timing_results[j].poop_metrics = None)
                          => Len(all) < Len(outcome.times)

\* the first of two measured runs carried no sample
C29_Witness ==
    /\ Returned("Ok")
    /\ Len(outcome.times) = 2
    /\ timing_results[1].poop_metrics = None
    /\ IsSome(outcome.poop_metrics)
    /\ IsSome(outcome.poop_metrics_all)
    /\ Len(Unwrap(outcome.poop_metrics_all)) = 1

\* the slots of a sequence of system calls, in order
SlotsOf(syscalls) == [k \in 1..Len(syscalls) |-> syscalls[k].slot]
\* the metrics new is to open
Attempted == IF requested = {} THEN MetricSlots ELSE requested
\* the order in which the slots are declared
DeclaredOrder == <<"cpu_cycles", "instructions", "cache_references",
                   "cache_misses", "branches", "branch_misses", "page_faults">>
\* the slots of S in the declared order
InOrder(S) == SelectSeq(DeclaredOrder, LAMBDA s : s \in S)
\* a system call for slot s succeeded
Succeeded(syscalls, s) ==
    \E k \in 1..Len(syscalls) : syscalls[k].slot = s /\ syscalls[k].ok

\* C22: new opens exactly the requested metrics, or all seven for an empty
\* request, returns Ok whatever the opens did, and leaves a slot present iff
\* its metric was asked for and its open succeeded.
C22_NewSwallowsFailures ==
    /\ last.call = "new" =>
          /\ last.ok
          /\ SlotsOf(last.syscalls) = InOrder(Attempted)
          /\ \A s \in MetricSlots :
                 IsSome(collector[s])
                     <=> (s \in Attempted /\ Succeeded(last.syscalls, s))
    /\ Opened \subseteq Attempted

\* all seven are asked for by an empty request and all seven opens fail
C22_Witness ==
    /\ last.call = "new"
    /\ requested = {}
    /\ Len(last.syscalls) = 7
    /\ Opened = {}
    /\ last.ok
    /\ cpc = "ready"

\* the first system call of a sequence that failed
FirstFailed(syscalls) ==
    syscalls[CHOOSE k \in 1..Len(syscalls) :
                 /\ ~syscalls[k].ok
                 /\ \A j \in 1..(k - 1) : syscalls[j].ok]

\* C23: enable and disable make their ioctl on opened counters only; a call
\* that returns Ok made it on every opened counter, once; a call returns an
\* error iff an ioctl failed, and then the error of the first that failed.
C23_EnableDisable ==
    last.call \in {"enable", "disable"} =>
        /\ \A k \in 1..Len(last.syscalls) :
               /\ last.syscalls[k].op = last.call
               /\ last.syscalls[k].slot \in Opened
               /\ last.syscalls[k].fd = collector[last.syscalls[k].slot]
        /\ last.ok <=> \A k \in 1..Len(last.syscalls) : last.syscalls[k].ok
        /\ last.ok =>
               /\ {last.syscalls[k].slot : k \in 1..Len(last.syscalls)} = Opened
               /\ Len(last.syscalls) = Cardinality(Opened)
               /\ \A s \in Opened : counting[s] = (last.call = "enable")
        /\ ~last.ok => last.err = OsError(FirstFailed(last.syscalls))

\* enable fails on the third of five opened counters
C23_Witness ==
    /\ last.call = "enable"
    /\ ~last.ok
    /\ Cardinality(Opened) = 5
    /\ Len(last.syscalls) = 3
    /\ last.err = OsError(last.syscalls[3])

\* C24: read returns Ok whatever the reads of the counters did; a field of the
\* sample is present iff its counter was opened and its read succeeded, and
\* then holds what that counter's read gave; every opened counter is read.
C24_ReadNeverFails ==
    last.call = "read" =>
        /\ last.ok
        /\ IsSome(last.value)
        /\ SlotsOf(last.syscalls) = InOrder(Opened)
        /\ \A s \in MetricSlots :
               LET field == Unwrap(last.value)[s]
               IN  /\ IsSome(field)
                       <=> (s \in Opened /\ Succeeded(last.syscalls, s))
                   /\ IsSome(field) => field = Some(Reading(s))

\* one read of three opened counters fails and the other two fields are there
C24_Witness ==
    /\ last.call = "read"
    /\ last.ok
    /\ Cardinality(Opened) = 3
    /\ Cardinality({k \in 1..Len(last.syscalls) : ~last.syscalls[k].ok}) = 1
    /\ Cardinality({s \in MetricSlots : IsSome(Unwrap(last.value)[s])}) = 2

\* C25: the opened counters hold one descriptor each, no two the same; no
\* descriptor is closed while the collector lives, and once it is dropped
\* every descriptor a counter held was closed once and no other was closed.
C25_ClosedExactlyOnce ==
    /\ \A s \in Opened : \A t \in Opened :
           collector[s] = collector[t] => s = t
    /\ \A s \in Opened : Unwrap(collector[s]) \in Fds
    /\ cpc # "dropped" => \A fd \in Fds : closes[fd] = 0
    /\ cpc = "dropped" =>
           \A fd \in Fds :
               closes[fd] = IF \E s \in Opened : collector[s] = Some(fd)
                            THEN 1 ELSE 0

\* a collector with some of the seven opens failed is dropped after an error
\* of disable
C25_Witness ==
    /\ cpc = "dropped"
    /\ requested = {}
    /\ Cardinality(Opened) = 4
    /\ last.call = "disable"
    /\ ~last.ok
    /\ \A fd \in Fds : closes[fd] = IF fd < FirstFd + 4 THEN 1 ELSE 0

\* the step is a call of enable or disable
IoctlStep ==
    /\ cpc = "ready"
    /\ cpc' = "ready"
    /\ last'.call \in {"enable", "disable"}

\* what a call of enable or disable left behind: the ioctls went through the
\* opened counters in the declared order up to the first failure; the
\* counters before it count, or do not, as the call asked; the others are as
\* they were
StopsWithoutRollback ==
    IoctlStep =>
        LET syscalls == last'.syscalls
            n == Len(syscalls)
            opened == InOrder(Opened)
        IN  /\ n <= Len(opened)
            /\ SlotsOf(syscalls) = SubSeq(opened, 1, n)
            /\ \A k \in 1..(n - 1) : syscalls[k].ok
            /\ (n < Len(opened)) => ~syscalls[n].ok
            /\ \A k \in 1..n :
                   counting'[syscalls[k].slot] =
                       IF syscalls[k].ok THEN last'.call = "enable"
                       ELSE counting[syscalls[k].slot]
            /\ \A s \in MetricSlots :
                   (\A k \in 1..n : syscalls[k].slot # s) =>
                       counting'[s] = counting[s]

\* C30: enable and disable go through the opened counters in the order
\* cpu_cycles, instructions, cache_references, cache_misses, branches,
\* branch_misses, page_faults and stop at the first failure: the counters
\* before it keep the new state and the counters after it are not touched.
C30_FixedOrderNoRollback ==
    [][StopsWithoutRollback]_vars

\* disable failed on the second of three counters that enable had started:
\* the first is stopped, the other two still count
C30_Witness ==
    /\ last.call = "disable"
    /\ ~last.ok
    /\ requested = {"cache_references", "cache_misses", "branches"}
    /\ Opened = requested
    /\ Len(last.syscalls) = 2
    /\ ~counting["cache_references"]
    /\ counting["cache_misses"]
    /\ counting["branches"]

====
